---- MODULE Spec2Model ----
(***************************************************************************)
(* Model of the connection pool manager: the registry of per-tenant pools  *)
(* (pkg/pool/pool.go, ConnectionPoolManager) and the gRPC facade in front  *)
(* of it (internal/service, ConnectionPoolServiceServer).                  *)
(*                                                                         *)
(* Strings are sequences of characters, so that the registry key           *)
(* tenantID + ":" + dsn and the handle "conn-" + tenant + "-" + timestamp  *)
(* are real concatenations.  The character "p" abbreviates the scheme      *)
(* "postgres", "u" abbreviates the rest of a URL ("//host/db") and "h"     *)
(* abbreviates the keyword/value descriptor used by the facade.            *)
(***************************************************************************)
EXTENDS Integers, Sequences, FiniteSets, TLC

\* ------------------------------------------------------------------ bounds
\* number of concurrent callers (goroutines) of the registry
NumCallers == 2
\* number of pools the pooling library constructs in one behaviour
MaxPools == 2

Callers == 1..NumCallers
PoolIds == 1..MaxPools

\* ------------------------------------------------------------------ inputs
TenantA == <<"a">>
TenantAP == <<"a", ":", "p">>
Tenants == {TenantA, TenantAP}

\* "p:u" stands for a URL descriptor ("postgres://host/db"): it parses.
DsnPU == <<"p", ":", "u">>
\* "u" stands for a descriptor that is no URL and no keyword/value list.
DsnU == <<"u">>
DSNs == {DsnPU, DsnU}

Pairs == Tenants \X DSNs

\* the descriptor the facade passes to ReleaseConnection and GetStats:
\* "host=localhost port=5432 user=admin password=securepassword dbname=tenant_registry"
FixedDSN == <<"h">>

\* "p:h" stands for the fixed descriptor with "postgres:" in front of it: a
\* keyword/value list whose first keyword is "postgres:host"; it parses.
DsnPH == <<"p", ":", "h">>

TenantAB == <<"a", "-", "b">>
\* req.TenantId may be the empty string
TenantEmpty == <<>>
FacadeTenants == {TenantA, TenantAB, TenantEmpty, TenantAP}
FacadeDSNs == {FixedDSN, DsnPH, DsnU}
\* the (TenantId, Dsn) of the GetConnection requests clients send
FacadeRequests ==
    {<<TenantA, FixedDSN>>, <<TenantA, DsnPH>>, <<TenantA, DsnU>>,
     <<TenantAB, FixedDSN>>, <<TenantEmpty, FixedDSN>>}

\* values time.Now().UnixNano() can take, in decimal
Timestamps == {<<"1">>, <<"2">>}

\* ------------------------------------------------------------- pure helpers
\* key := tenantID + ":" + dsn
Key(tenantID, dsn) == tenantID \o <<":">> \o dsn

\* pgxpool.ParseConfig(dsn) returns a nil error
ParseConfigOK(dsn) == dsn \in {DsnPU, DsnPH, FixedDSN}

\* The pool settings of the config pgxpool.ParseConfig(dsn) returns, times in
\* minutes: the pool_max_conns, pool_min_conns, pool_max_conn_lifetime and
\* pool_max_conn_idle_time the descriptor asks for, or the library's defaults.
\* The URL "p:u" asks for 50, 1, 10 and 2.
LibraryDefaults ==
    [MaxConns |-> 4, MinConns |-> 0, MaxConnLifetime |-> 60, MaxConnIdleTime |-> 30]

ParseConfig(dsn) ==
    IF dsn = DsnPU
    THEN [MaxConns |-> 50, MinConns |-> 1, MaxConnLifetime |-> 10, MaxConnIdleTime |-> 2]
    ELSE LibraryDefaults

\* variant: what the descriptor asks for is kept
NewConfigKeepsParsed(dsn) ==
    IF ParseConfig(dsn) = LibraryDefaults
    THEN [MaxConns |-> 20, MinConns |-> 5, MaxConnLifetime |-> 30, MaxConnIdleTime |-> 5]
    ELSE ParseConfig(dsn)

\* the config GetConnection hands to pgxpool.NewWithConfig:
\* config.MaxConns = 20; config.MinConns = 5;
\* config.MaxConnLifetime = 30 * time.Minute; config.MaxConnIdleTime = 5 * time.Minute
NewConfig(dsn) ==
    [ParseConfig(dsn) EXCEPT !.MaxConns = 20, !.MinConns = 5,
                             !.MaxConnLifetime = 30, !.MaxConnIdleTime = 5]

\* error values: a nil error, or an error carrying a text
NilErr == [nil |-> TRUE, text |-> <<>>]
Err(text) == [nil |-> FALSE, text |-> text]

PoolNotFoundPrefix == <<"pool not found for tenant ">>
\* fmt.Errorf("pool not found for tenant %s and dsn %s", tenantID, dsn)
PoolNotFoundErr(tenantID, dsn) ==
    Err(PoolNotFoundPrefix \o tenantID \o <<" and dsn ">> \o dsn)
\* the error pgxpool.ParseConfig returns
ParseErr(dsn) == Err(<<"cannot parse ">> \o dsn)
\* the error pgxpool.NewWithConfig returns
NewPoolErr == Err(<<"failed to create pool">>)

IsPoolNotFound(err) ==
    /\ ~err.nil
    /\ Len(err.text) >= 1
    /\ err.text[1] = PoolNotFoundPrefix[1]

\* Stats{}
ZeroStats == [ActiveConnections |-> 0, IdleConnections |-> 0, TotalConnections |-> 0]
\* what pool.Stat() can report about a live pool
StatSnapshots ==
    {ZeroStats,
     [ActiveConnections |-> 1, IdleConnections |-> 1, TotalConnections |-> 2]}

\* variant: cuts at the first and at the last separator only
SplitOuter(s, sep) ==
    LET idx == {i \in 1..Len(s) : s[i] = sep}
    IN  IF idx = {} THEN <<s>>
        ELSE LET f == CHOOSE i \in idx : \A j \in idx : i <= j
                 l == CHOOSE i \in idx : \A j \in idx : j <= i
             IN  IF f = l
                 THEN <<SubSeq(s, 1, f - 1), SubSeq(s, f + 1, Len(s))>>
                 ELSE <<SubSeq(s, 1, f - 1), SubSeq(s, f + 1, l - 1),
                        SubSeq(s, l + 1, Len(s))>>

\* strings.Split(s, sep) for a one-character separator
RECURSIVE Split(_, _)
Split(s, sep) ==
    IF \A i \in 1..Len(s) : s[i] # sep
    THEN <<s>>
    ELSE LET i == CHOOSE j \in 1..Len(s) :
                      /\ s[j] = sep
                      /\ \A k \in 1..(j - 1) : s[k] # sep
         IN  <<SubSeq(s, 1, i - 1)>> \o Split(SubSeq(s, i + 1, Len(s)), sep)

ConnPrefix == <<"c", "o", "n", "n">>
\* variant: an empty tenant leaves no segment of its own in the handle
ConnIDSkipsEmpty(tenantId, ts) ==
    IF tenantId = <<>>
    THEN ConnPrefix \o <<"-">> \o ts
    ELSE ConnPrefix \o <<"-">> \o tenantId \o <<"-">> \o ts

\* fmt.Sprintf("conn-%s-%d", req.TenantId, time.Now().UnixNano())
ConnID(tenantId, ts) == ConnPrefix \o <<"-">> \o tenantId \o <<"-">> \o ts

\* handles a client can present to ReleaseConnection
Handles ==
    {ConnID(t, <<"1">>) : t \in FacadeTenants}
        \cup {ConnPrefix, <<>>, <<"x", "-", "a">>}

InvalidConnIDText == <<"invalid connection ID">>

NoCall == [op |-> "none", tenant |-> <<>>, dsn |-> <<>>, facade |-> FALSE, connId |-> <<>>]
NoRet == [pool |-> 0, err |-> NilErr, stats |-> ZeroStats]

\* ------------------------------------------------------------------- state
VARIABLES
    pools,      \* cpm.pools: key string -> pool instance
    mutex,      \* cpm.poolLocks: 0 when free, else the caller holding it
    pc,         \* where each caller is
    cur,        \* the call each caller is executing
    ret,        \* the values the registry call returns to each caller
    nextPool,   \* identity of the next pool the library allocates
    closes,     \* per pool instance, how often Close() was called on it
    owner,      \* per pool instance, the (tenant, dsn) it was built for
    held,       \* history: (tenant, dsn) -> the instance last handed out for
                \* that pair and not released through that pair since
    atLock,     \* history: cpm.pools as it was when the current holder locked
    sharedKey,  \* the (tenant, dsn) all callers of the same-key scenario use
    cancelled,  \* per caller, whether the ctx of its call has been cancelled
    failed,     \* history, kept in the same-key scenario: the (tenant, dsn)
                \* for which a GetConnection has failed
    runPc,       \* where Application.Run is
    runRet,      \* the error Application.Run returns
    selected,    \* the case the select statement of Run took
    grpcGo,      \* where the goroutine of startGRPCServer is
    httpGo,      \* where the goroutine of startHTTPServer is
    grpcServer,  \* app.grpcServer: "new", "serving" or "stopped"
    grpcErrChan, \* the channel startGRPCServer returns (capacity 1)
    httpErrChan, \* the channel startHTTPServer returns (capacity 1)
    signalChan,  \* the channel setupSignalHandler returns (capacity 1)
    notified,    \* signal.Notify has registered signalChan
    sent         \* history: the events that were put on the three channels

\* the state of the server process around the registry
appVars == <<runPc, runRet, selected, grpcGo, httpGo, grpcServer, grpcErrChan,
             httpErrChan, signalChan, notified, sent>>

vars == <<pools, mutex, pc, cur, ret, nextPool, closes, owner, held, atLock, sharedKey, cancelled, failed, appVars>>

EmptyMap == [k \in {} |-> 0]

\* the process before main calls app.Run()
InitApp ==
    /\ runPc = "startGRPC"
    /\ runRet = NilErr
    /\ selected = "none"
    /\ grpcGo = "none"
    /\ httpGo = "none"
    /\ grpcServer = "new"
    /\ grpcErrChan = <<>>
    /\ httpErrChan = <<>>
    /\ signalChan = <<>>
    /\ notified = FALSE
    /\ sent = {}

Init ==
    /\ pools = EmptyMap
    /\ mutex = 0
    /\ pc = [p \in Callers |-> "idle"]
    /\ cur = [p \in Callers |-> NoCall]
    /\ ret = [p \in Callers |-> NoRet]
    /\ nextPool = 1
    /\ closes = [i \in PoolIds |-> 0]
    /\ owner = [i \in PoolIds |-> <<>>]
    /\ held = EmptyMap
    /\ atLock = EmptyMap
    /\ sharedKey = <<>>
    /\ cancelled = [p \in Callers |-> FALSE]
    /\ failed = {}
    /\ InitApp

CurKey(p) == Key(cur[p].tenant, cur[p].dsn)
CurPair(p) == <<cur[p].tenant, cur[p].dsn>>

\* ------------------------------------------------------ callers of registry
CallGetConnection(p, tenantID, dsn) ==
    /\ pc[p] = "idle"
    /\ cur' = [cur EXCEPT ![p] = [op |-> "GetConnection", tenant |-> tenantID,
                                  dsn |-> dsn, facade |-> FALSE, connId |-> <<>>]]
    /\ pc' = [pc EXCEPT ![p] = "lock"]
    /\ UNCHANGED <<pools, mutex, ret, nextPool, closes, owner, held, atLock, sharedKey, cancelled, failed, appVars>>

CallReleaseConnection(p, tenantID, dsn) ==
    /\ pc[p] = "idle"
    /\ cur' = [cur EXCEPT ![p] = [op |-> "ReleaseConnection", tenant |-> tenantID,
                                  dsn |-> dsn, facade |-> FALSE, connId |-> <<>>]]
    /\ pc' = [pc EXCEPT ![p] = "lock"]
    /\ UNCHANGED <<pools, mutex, ret, nextPool, closes, owner, held, atLock, sharedKey, cancelled, failed, appVars>>

CallGetStats(p, tenantID, dsn) ==
    /\ pc[p] = "idle"
    /\ cur' = [cur EXCEPT ![p] = [op |-> "GetStats", tenant |-> tenantID,
                                  dsn |-> dsn, facade |-> FALSE, connId |-> <<>>]]
    /\ pc' = [pc EXCEPT ![p] = "lock"]
    /\ UNCHANGED <<pools, mutex, ret, nextPool, closes, owner, held, atLock, sharedKey, cancelled, failed, appVars>>

\* ---------------------------------------------------------------- registry
\* variant: the lock is taken without waiting for its holder
LockNoWait(p) ==
    /\ pc[p] = "lock"
    /\ mutex' = p
    /\ atLock' = pools
    /\ pc' = [pc EXCEPT ![p] = "lookup"]
    /\ UNCHANGED <<pools, cur, ret, nextPool, closes, owner, held, sharedKey, cancelled, failed, appVars>>

\* cpm.poolLocks.Lock()
Lock(p) ==
    /\ pc[p] = "lock"
    /\ mutex = 0
    /\ mutex' = p
    /\ atLock' = pools
    /\ pc' = [pc EXCEPT ![p] = "lookup"]
    /\ UNCHANGED <<pools, cur, ret, nextPool, closes, owner, held, sharedKey, cancelled, failed, appVars>>

\* the history of failed calls after caller p's GetConnection has failed
FailedAfter(p) == IF sharedKey = <<>> THEN failed ELSE failed \cup {CurPair(p)}

\* variant: a key whose pool could not be built is not tried again
GetLookupNegativeCache(p) ==
    /\ pc[p] = "lookup"
    /\ cur[p].op = "GetConnection"
    /\ IF CurKey(p) \in DOMAIN pools
       THEN /\ ret' = [ret EXCEPT ![p] = [NoRet EXCEPT !.pool = pools[CurKey(p)]]]
            /\ pc' = [pc EXCEPT ![p] = "unlock"]
       ELSE IF CurPair(p) \in failed
       THEN /\ ret' = [ret EXCEPT ![p] = [NoRet EXCEPT !.err = NewPoolErr]]
            /\ pc' = [pc EXCEPT ![p] = "unlock"]
       ELSE /\ ret' = ret
            /\ pc' = [pc EXCEPT ![p] = "parse"]
    /\ UNCHANGED <<pools, mutex, cur, nextPool, closes, owner, held, atLock, sharedKey, cancelled, failed, appVars>>

\* variant: the cached pool is never found
GetLookupMiss(p) ==
    /\ pc[p] = "lookup"
    /\ cur[p].op = "GetConnection"
    /\ ret' = ret
    /\ pc' = [pc EXCEPT ![p] = "parse"]
    /\ UNCHANGED <<pools, mutex, cur, nextPool, closes, owner, held, atLock, sharedKey, cancelled, failed, appVars>>

\* GetConnection: if pool, exists := cpm.pools[key]; exists { return pool, nil }
GetLookup(p) ==
    /\ pc[p] = "lookup"
    /\ cur[p].op = "GetConnection"
    /\ IF CurKey(p) \in DOMAIN pools
       THEN /\ ret' = [ret EXCEPT ![p] = [NoRet EXCEPT !.pool = pools[CurKey(p)]]]
            /\ pc' = [pc EXCEPT ![p] = "unlock"]
       ELSE /\ ret' = ret
            /\ pc' = [pc EXCEPT ![p] = "parse"]
    /\ UNCHANGED <<pools, mutex, cur, nextPool, closes, owner, held, atLock, sharedKey, cancelled, failed, appVars>>

\* variant: the lock is given up before the pool is constructed
GetParseUnlocks(p) ==
    /\ pc[p] = "parse"
    /\ IF ParseConfigOK(cur[p].dsn)
       THEN /\ ret' = ret
            /\ mutex' = 0
            /\ pc' = [pc EXCEPT ![p] = "construct"]
       ELSE /\ ret' = [ret EXCEPT ![p] = [NoRet EXCEPT !.err = ParseErr(cur[p].dsn)]]
            /\ mutex' = mutex
            /\ pc' = [pc EXCEPT ![p] = "unlock"]
    /\ UNCHANGED <<pools, cur, nextPool, closes, owner, held, atLock, sharedKey, cancelled, failed, appVars>>

\* GetConnection: config, err := pgxpool.ParseConfig(dsn)
GetParse(p) ==
    /\ pc[p] = "parse"
    /\ IF ParseConfigOK(cur[p].dsn)
       THEN /\ ret' = ret
            /\ failed' = failed
            /\ pc' = [pc EXCEPT ![p] = "construct"]
       ELSE /\ ret' = [ret EXCEPT ![p] = [NoRet EXCEPT !.err = ParseErr(cur[p].dsn)]]
            /\ failed' = FailedAfter(p)
            /\ pc' = [pc EXCEPT ![p] = "unlock"]
    /\ UNCHANGED <<pools, mutex, cur, nextPool, closes, owner, held, atLock, sharedKey, cancelled, appVars>>

\* variant: a pool that was released for the same tenant and dsn is handed out
\* again instead of a new one
NewWithConfigOKRecycles(p) ==
    /\ pc[p] = "construct"
    /\ nextPool <= MaxPools
    /\ IF \E i \in 1..(nextPool - 1) : owner[i] = CurPair(p) /\ closes[i] >= 1
       THEN /\ \E i \in 1..(nextPool - 1) :
                  /\ owner[i] = CurPair(p)
                  /\ closes[i] >= 1
                  /\ ret' = [ret EXCEPT ![p] = [NoRet EXCEPT !.pool = i]]
            /\ UNCHANGED <<owner, nextPool>>
       ELSE /\ ret' = [ret EXCEPT ![p] = [NoRet EXCEPT !.pool = nextPool]]
            /\ owner' = [owner EXCEPT ![nextPool] = CurPair(p)]
            /\ nextPool' = nextPool + 1
    /\ pc' = [pc EXCEPT ![p] = "insert"]
    /\ UNCHANGED <<pools, mutex, cur, closes, held, atLock, sharedKey, cancelled, failed, appVars>>

\* variant: no second pool is built while one is registered
NewWithConfigOKQuota(p) ==
    /\ pc[p] = "construct"
    /\ nextPool <= MaxPools
    /\ IF pools = EmptyMap
       THEN /\ ret' = [ret EXCEPT ![p] = [NoRet EXCEPT !.pool = nextPool]]
            /\ owner' = [owner EXCEPT ![nextPool] = CurPair(p)]
            /\ nextPool' = nextPool + 1
            /\ pc' = [pc EXCEPT ![p] = "insert"]
       ELSE /\ ret' = [ret EXCEPT ![p] = [NoRet EXCEPT !.err = Err(<<"too many pools">>)]]
            /\ UNCHANGED <<owner, nextPool>>
            /\ pc' = [pc EXCEPT ![p] = "unlock"]
    /\ UNCHANGED <<pools, mutex, cur, closes, held, atLock, sharedKey, cancelled, failed, appVars>>

\* GetConnection: pool, err := pgxpool.NewWithConfig(ctx, config), err == nil
NewWithConfigOK(p) ==
    /\ pc[p] = "construct"
    /\ nextPool <= MaxPools
    /\ ret' = [ret EXCEPT ![p] = [NoRet EXCEPT !.pool = nextPool]]
    /\ owner' = [owner EXCEPT ![nextPool] = CurPair(p)]
    /\ nextPool' = nextPool + 1
    /\ pc' = [pc EXCEPT ![p] = "insert"]
    /\ UNCHANGED <<pools, mutex, cur, closes, held, atLock, sharedKey, cancelled, failed, appVars>>

\* variant: the failed construction is stored under the key before returning
NewWithConfigFailStored(p) ==
    /\ pc[p] = "construct"
    /\ ret' = [ret EXCEPT ![p] = [NoRet EXCEPT !.err = NewPoolErr]]
    /\ pools' = [k \in DOMAIN pools \cup {CurKey(p)} |->
                    IF k = CurKey(p) THEN 0 ELSE pools[k]]
    /\ pc' = [pc EXCEPT ![p] = "unlock"]
    /\ UNCHANGED <<mutex, cur, nextPool, closes, owner, held, atLock, sharedKey, cancelled, failed, appVars>>

\* GetConnection: pool, err := pgxpool.NewWithConfig(ctx, config), err != nil
NewWithConfigFail(p) ==
    /\ pc[p] = "construct"
    /\ ret' = [ret EXCEPT ![p] = [NoRet EXCEPT !.err = NewPoolErr]]
    /\ failed' = FailedAfter(p)
    /\ pc' = [pc EXCEPT ![p] = "unlock"]
    /\ UNCHANGED <<pools, mutex, cur, nextPool, closes, owner, held, atLock, sharedKey, cancelled, appVars>>

\* variant: a pool built for a caller that has cancelled is dropped
GetInsertUnlessDone(p) ==
    /\ pc[p] = "insert"
    /\ IF cancelled[p]
       THEN /\ pools' = pools
            /\ ret' = [ret EXCEPT ![p] = [NoRet EXCEPT !.err = Err(<<"context canceled">>)]]
       ELSE /\ pools' = [k \in DOMAIN pools \cup {CurKey(p)} |->
                            IF k = CurKey(p) THEN ret[p].pool ELSE pools[k]]
            /\ ret' = ret
    /\ pc' = [pc EXCEPT ![p] = "unlock"]
    /\ UNCHANGED <<mutex, cur, nextPool, closes, owner, held, atLock, sharedKey, cancelled, failed, appVars>>

\* GetConnection: cpm.pools[key] = pool
GetInsert(p) ==
    /\ pc[p] = "insert"
    /\ pools' = [k \in DOMAIN pools \cup {CurKey(p)} |->
                    IF k = CurKey(p) THEN ret[p].pool ELSE pools[k]]
    /\ pc' = [pc EXCEPT ![p] = "unlock"]
    /\ UNCHANGED <<mutex, cur, ret, nextPool, closes, owner, held, atLock, sharedKey, cancelled, failed, appVars>>

\* variant: a pool whose reference has been handed out is not released
ReleaseLookupRefCounted(p) ==
    /\ pc[p] = "lookup"
    /\ cur[p].op = "ReleaseConnection"
    /\ IF CurKey(p) \in DOMAIN pools /\ CurPair(p) \notin DOMAIN held
       THEN /\ ret' = ret
            /\ pc' = [pc EXCEPT ![p] = "close"]
       ELSE /\ ret' = [ret EXCEPT ![p] =
                         [NoRet EXCEPT !.err = PoolNotFoundErr(cur[p].tenant, cur[p].dsn)]]
            /\ pc' = [pc EXCEPT ![p] = "unlock"]
    /\ UNCHANGED <<pools, mutex, cur, nextPool, closes, owner, held, atLock, sharedKey, cancelled, failed, appVars>>

\* variant: releasing a pool that is not registered succeeds
ReleaseLookupIdempotent(p) ==
    /\ pc[p] = "lookup"
    /\ cur[p].op = "ReleaseConnection"
    /\ ret' = ret
    /\ IF CurKey(p) \in DOMAIN pools
       THEN pc' = [pc EXCEPT ![p] = "close"]
       ELSE pc' = [pc EXCEPT ![p] = "unlock"]
    /\ UNCHANGED <<pools, mutex, cur, nextPool, closes, owner, held, atLock, sharedKey, cancelled, failed, appVars>>

\* ReleaseConnection: if pool, exists := cpm.pools[key]; exists {...}
\*                    return fmt.Errorf("pool not found ...")
ReleaseLookup(p) ==
    /\ pc[p] = "lookup"
    /\ cur[p].op = "ReleaseConnection"
    /\ IF CurKey(p) \in DOMAIN pools
       THEN /\ ret' = ret
            /\ pc' = [pc EXCEPT ![p] = "close"]
       ELSE /\ ret' = [ret EXCEPT ![p] =
                         [NoRet EXCEPT !.err = PoolNotFoundErr(cur[p].tenant, cur[p].dsn)]]
            /\ pc' = [pc EXCEPT ![p] = "unlock"]
    /\ UNCHANGED <<pools, mutex, cur, nextPool, closes, owner, held, atLock, sharedKey, cancelled, failed, appVars>>

\* variant: the pool is dropped from the map without being closed
ReleaseCloseSkipped(p) ==
    /\ pc[p] = "close"
    /\ pc' = [pc EXCEPT ![p] = "delete"]
    /\ UNCHANGED <<pools, mutex, cur, ret, nextPool, closes, owner, held, atLock, sharedKey, cancelled, failed, appVars>>

\* variant: the lock is given up before the pool is closed
ReleaseCloseUnlocks(p) ==
    /\ pc[p] = "close"
    /\ closes' = [closes EXCEPT ![pools[CurKey(p)]] = @ + 1]
    /\ mutex' = 0
    /\ pc' = [pc EXCEPT ![p] = "delete"]
    /\ UNCHANGED <<pools, cur, ret, nextPool, owner, held, atLock, sharedKey, cancelled, failed, appVars>>

\* ReleaseConnection: pool.Close()
ReleaseClose(p) ==
    /\ pc[p] = "close"
    /\ closes' = [closes EXCEPT ![pools[CurKey(p)]] = @ + 1]
    /\ pc' = [pc EXCEPT ![p] = "delete"]
    /\ UNCHANGED <<pools, mutex, cur, ret, nextPool, owner, held, atLock, sharedKey, cancelled, failed, appVars>>

\* variant: the release empties the map
ReleaseDeleteAll(p) ==
    /\ pc[p] = "delete"
    /\ pools' = EmptyMap
    /\ ret' = [ret EXCEPT ![p] = NoRet]
    /\ pc' = [pc EXCEPT ![p] = "unlock"]
    /\ UNCHANGED <<mutex, cur, nextPool, closes, owner, held, atLock, sharedKey, cancelled, failed, appVars>>

\* variant: the closed pool stays registered
ReleaseDeleteKeeps(p) ==
    /\ pc[p] = "delete"
    /\ pools' = pools
    /\ ret' = [ret EXCEPT ![p] = NoRet]
    /\ pc' = [pc EXCEPT ![p] = "unlock"]
    /\ UNCHANGED <<mutex, cur, nextPool, closes, owner, held, atLock, sharedKey, cancelled, failed, appVars>>

\* ReleaseConnection: delete(cpm.pools, key); return nil
ReleaseDelete(p) ==
    /\ pc[p] = "delete"
    /\ pools' = [k \in DOMAIN pools \ {CurKey(p)} |-> pools[k]]
    /\ ret' = [ret EXCEPT ![p] = NoRet]
    /\ pc' = [pc EXCEPT ![p] = "unlock"]
    /\ UNCHANGED <<mutex, cur, nextPool, closes, owner, held, atLock, sharedKey, cancelled, failed, appVars>>

\* variant: reading the statistics evicts the pool that was read
StatsLookupEvicts(p) ==
    /\ pc[p] = "lookup"
    /\ cur[p].op = "GetStats"
    /\ IF CurKey(p) \in DOMAIN pools
       THEN /\ \E s \in StatSnapshots :
                  ret' = [ret EXCEPT ![p] = [NoRet EXCEPT !.stats = s]]
            /\ pools' = [k \in DOMAIN pools \ {CurKey(p)} |-> pools[k]]
       ELSE /\ ret' = [ret EXCEPT ![p] =
                        [pool |-> 0, stats |-> ZeroStats,
                         err |-> PoolNotFoundErr(cur[p].tenant, cur[p].dsn)]]
            /\ pools' = pools
    /\ pc' = [pc EXCEPT ![p] = "unlock"]
    /\ UNCHANGED <<mutex, cur, nextPool, closes, owner, held, atLock, sharedKey, cancelled, failed, appVars>>

\* GetStats: the whole body
StatsLookup(p) ==
    /\ pc[p] = "lookup"
    /\ cur[p].op = "GetStats"
    /\ IF CurKey(p) \in DOMAIN pools
       THEN \E s \in StatSnapshots :
                ret' = [ret EXCEPT ![p] = [NoRet EXCEPT !.stats = s]]
       ELSE ret' = [ret EXCEPT ![p] =
                      [pool |-> 0, stats |-> ZeroStats,
                       err |-> PoolNotFoundErr(cur[p].tenant, cur[p].dsn)]]
    /\ pc' = [pc EXCEPT ![p] = "unlock"]
    /\ UNCHANGED <<pools, mutex, cur, nextPool, closes, owner, held, atLock, sharedKey, cancelled, failed, appVars>>

\* what the call that returns does to the record of instances handed out
HeldAfter(p) ==
    IF ~ret[p].err.nil THEN held
    ELSE IF cur[p].op = "GetConnection"
         THEN [K \in DOMAIN held \cup {CurPair(p)} |->
                  IF K = CurPair(p) THEN ret[p].pool ELSE held[K]]
    ELSE IF cur[p].op = "ReleaseConnection"
         THEN [K \in DOMAIN held \ {CurPair(p)} |-> held[K]]
    ELSE held

\* variant: Unlock() is called before the return of a successful call only,
\* not deferred
UnlockOnSuccessOnly(p) ==
    /\ pc[p] = "unlock"
    /\ mutex' = IF ret[p].err.nil THEN 0 ELSE mutex
    /\ held' = HeldAfter(p)
    /\ pc' = [pc EXCEPT ![p] = "idle"]
    /\ cur' = [cur EXCEPT ![p] = NoCall]
    /\ ret' = [ret EXCEPT ![p] = NoRet]
    /\ cancelled' = [cancelled EXCEPT ![p] = FALSE]
    /\ UNCHANGED <<pools, nextPool, closes, owner, atLock, sharedKey, failed, appVars>>

\* return: the values in ret[p] go to the caller, and the deferred
\* cpm.poolLocks.Unlock() runs
Unlock(p) ==
    /\ pc[p] = "unlock"
    /\ mutex' = 0
    /\ held' = HeldAfter(p)
    /\ pc' = [pc EXCEPT ![p] = "idle"]
    /\ cur' = [cur EXCEPT ![p] = NoCall]
    /\ ret' = [ret EXCEPT ![p] = NoRet]
    /\ cancelled' = [cancelled EXCEPT ![p] = FALSE]
    /\ UNCHANGED <<pools, nextPool, closes, owner, atLock, sharedKey, failed, appVars>>

RegistryStep(p) ==
    \/ Lock(p)
    \/ GetLookup(p)
    \/ GetParse(p)
    \/ NewWithConfigOK(p)
    \/ NewWithConfigFail(p)
    \/ GetInsert(p)
    \/ ReleaseLookup(p)
    \/ ReleaseClose(p)
    \/ ReleaseDelete(p)
    \/ StatsLookup(p)
    \/ Unlock(p)

Next ==
    \E p \in Callers :
        \/ \E t \in Tenants, d \in DSNs : CallGetConnection(p, t, d)
        \/ \E t \in Tenants, d \in DSNs : CallReleaseConnection(p, t, d)
        \/ \E t \in Tenants, d \in DSNs : CallGetStats(p, t, d)
        \/ RegistryStep(p)

Spec == Init /\ [][Next]_vars

\* ------------------------------------------------------------------ facade
\* A facade handler calls into the registry in one step with the registry's
\* cpm.poolLocks.Lock(): the handler blocks in Lock() while the lock is held.
\* ConnectionPoolServiceServer.GetConnection: the call into the registry
FacadeGetConnection(p, tenantId, dsn) ==
    /\ pc[p] = "idle"
    /\ mutex = 0
    /\ mutex' = p
    /\ atLock' = pools
    /\ cur' = [cur EXCEPT ![p] = [op |-> "GetConnection", tenant |-> tenantId,
                                  dsn |-> dsn, facade |-> TRUE, connId |-> <<>>]]
    /\ pc' = [pc EXCEPT ![p] = "lookup"]
    /\ UNCHANGED <<pools, ret, nextPool, closes, owner, held, sharedKey, cancelled, failed, appVars>>

\* variant: the tenant is all that stands between the prefix and the timestamp
FacadeReleaseConnectionWholeTenant(p, connectionId) ==
    /\ pc[p] = "idle"
    /\ Len(Split(connectionId, "-")) >= 2
    /\ mutex = 0
    /\ mutex' = p
    /\ atLock' = pools
    /\ cur' = [cur EXCEPT ![p] = [op |-> "ReleaseConnection",
                                  tenant |-> SplitOuter(connectionId, "-")[2],
                                  dsn |-> FixedDSN, facade |-> TRUE,
                                  connId |-> connectionId]]
    /\ pc' = [pc EXCEPT ![p] = "lookup"]
    /\ UNCHANGED <<pools, ret, nextPool, closes, owner, held, sharedKey, cancelled, failed, appVars>>

\* ConnectionPoolServiceServer.ReleaseConnection, for a handle with at least
\* two parts: the call into the registry with parts[1] and the fixed descriptor
FacadeReleaseConnection(p, connectionId) ==
    /\ pc[p] = "idle"
    /\ Len(Split(connectionId, "-")) >= 2
    /\ mutex = 0
    /\ mutex' = p
    /\ atLock' = pools
    /\ cur' = [cur EXCEPT ![p] = [op |-> "ReleaseConnection",
                                  tenant |-> Split(connectionId, "-")[2],
                                  dsn |-> FixedDSN, facade |-> TRUE,
                                  connId |-> connectionId]]
    /\ pc' = [pc EXCEPT ![p] = "lookup"]
    /\ UNCHANGED <<pools, ret, nextPool, closes, owner, held, sharedKey, cancelled, failed, appVars>>

\* variant: a handle with fewer than two parts is released with an empty tenant
FacadeRejectConnIDReleases(p, connectionId) ==
    /\ pc[p] = "idle"
    /\ Len(Split(connectionId, "-")) < 2
    /\ mutex = 0
    /\ mutex' = p
    /\ atLock' = pools
    /\ cur' = [cur EXCEPT ![p] = [op |-> "ReleaseConnection", tenant |-> <<>>,
                                  dsn |-> FixedDSN, facade |-> TRUE,
                                  connId |-> connectionId]]
    /\ pc' = [pc EXCEPT ![p] = "lookup"]
    /\ UNCHANGED <<pools, ret, nextPool, closes, owner, held, sharedKey, cancelled, failed, appVars>>

\* ConnectionPoolServiceServer.ReleaseConnection, for a handle with fewer than
\* two parts: the handler is about to return InvalidConnIDResponse
FacadeRejectConnID(p, connectionId) ==
    /\ pc[p] = "idle"
    /\ Len(Split(connectionId, "-")) < 2
    /\ cur' = [cur EXCEPT ![p] = [op |-> "ReleaseConnection", tenant |-> <<>>,
                                  dsn |-> <<>>, facade |-> TRUE,
                                  connId |-> connectionId]]
    /\ pc' = [pc EXCEPT ![p] = "reject"]
    /\ UNCHANGED <<pools, mutex, ret, nextPool, closes, owner, held, atLock, sharedKey, cancelled, failed, appVars>>

\* ConnectionPoolServiceServer.ReleaseConnection: the return for a handle
\* with fewer than two parts
FacadeReject(p) ==
    /\ pc[p] = "reject"
    /\ pc' = [pc EXCEPT ![p] = "idle"]
    /\ cur' = [cur EXCEPT ![p] = NoCall]
    /\ UNCHANGED <<pools, mutex, ret, nextPool, closes, owner, held, atLock, sharedKey, cancelled, failed, appVars>>

\* variant: the statistics are asked for under another descriptor
FacadeGetPoolStatsOtherDSN(p, tenantId) ==
    /\ pc[p] = "idle"
    /\ mutex = 0
    /\ mutex' = p
    /\ atLock' = pools
    /\ cur' = [cur EXCEPT ![p] = [op |-> "GetStats", tenant |-> tenantId,
                                  dsn |-> DsnPH, facade |-> TRUE, connId |-> <<>>]]
    /\ pc' = [pc EXCEPT ![p] = "lookup"]
    /\ UNCHANGED <<pools, ret, nextPool, closes, owner, held, sharedKey, cancelled, failed, appVars>>

\* ConnectionPoolServiceServer.GetPoolStats: the call into the registry
FacadeGetPoolStats(p, tenantId) ==
    /\ pc[p] = "idle"
    /\ mutex = 0
    /\ mutex' = p
    /\ atLock' = pools
    /\ cur' = [cur EXCEPT ![p] = [op |-> "GetStats", tenant |-> tenantId,
                                  dsn |-> FixedDSN, facade |-> TRUE, connId |-> <<>>]]
    /\ pc' = [pc EXCEPT ![p] = "lookup"]
    /\ UNCHANGED <<pools, ret, nextPool, closes, owner, held, sharedKey, cancelled, failed, appVars>>

\* What the facade handlers return: the response message and, in field err,
\* the error handed to the transport.
\* variant: the handle is minted whether or not the registry call failed
GetConnectionResponseAlwaysMints(err, tenantId, ts) ==
    IF ~err.nil
    THEN [ConnectionId |-> ConnID(tenantId, ts), Error |-> err.text, err |-> err]
    ELSE [ConnectionId |-> ConnID(tenantId, ts), Error |-> <<>>, err |-> NilErr]

\* GetConnection, given the error of the registry call
GetConnectionResponse(err, tenantId, ts) ==
    IF ~err.nil
    THEN [ConnectionId |-> <<>>, Error |-> err.text, err |-> err]
    ELSE [ConnectionId |-> ConnID(tenantId, ts), Error |-> <<>>, err |-> NilErr]

\* variant: a failed release reports its error to the transport only
ReleaseConnectionResponseNoText(err) ==
    IF ~err.nil
    THEN [Success |-> FALSE, Error |-> <<>>, err |-> err]
    ELSE [Success |-> TRUE, Error |-> <<>>, err |-> NilErr]

\* ReleaseConnection, given the error of the registry call
ReleaseConnectionResponse(err) ==
    IF ~err.nil
    THEN [Success |-> FALSE, Error |-> err.text, err |-> err]
    ELSE [Success |-> TRUE, Error |-> <<>>, err |-> NilErr]

\* ReleaseConnection, for a handle with fewer than two parts
InvalidConnIDResponse ==
    [Success |-> FALSE, Error |-> InvalidConnIDText, err |-> Err(InvalidConnIDText)]

\* GetPoolStats, given the values of the registry call
GetPoolStatsResponse(stats, err) ==
    IF ~err.nil
    THEN [ActiveConnections |-> 0, IdleConnections |-> 0, TotalConnections |-> 0,
          Error |-> err.text, err |-> err]
    ELSE [ActiveConnections |-> stats.ActiveConnections,
          IdleConnections |-> stats.IdleConnections,
          TotalConnections |-> stats.TotalConnections,
          Error |-> <<>>, err |-> NilErr]

\* the response the handler caller p is in is about to return: p has the
\* values of its registry call (pc "unlock") or has found its handle to have
\* fewer than two parts (pc "reject")
FacadeResponse(p, ts) ==
    IF pc[p] = "reject" THEN InvalidConnIDResponse
    ELSE IF cur[p].op = "GetConnection"
         THEN GetConnectionResponse(ret[p].err, cur[p].tenant, ts)
    ELSE IF cur[p].op = "ReleaseConnection"
         THEN ReleaseConnectionResponse(ret[p].err)
    ELSE GetPoolStatsResponse(ret[p].stats, ret[p].err)

NextFacade ==
    \E p \in Callers :
        \/ \E r \in FacadeRequests : FacadeGetConnection(p, r[1], r[2])
        \/ \E h \in Handles : FacadeReleaseConnection(p, h)
        \/ \E h \in Handles : FacadeRejectConnID(p, h)
        \/ FacadeReject(p)
        \/ \E t \in FacadeTenants : FacadeGetPoolStats(p, t)
        \/ CallGetStats(p, TenantA, DsnPH)
        \/ RegistryStep(p)

SpecFacade == Init /\ [][NextFacade]_vars

\* ------------------------------------------------------- same-key scenario
\* N callers that all ask for the pool of one (tenant, dsn), on an empty
\* registry
InitSameKey ==
    /\ pools = EmptyMap
    /\ mutex = 0
    /\ pc = [p \in Callers |-> "idle"]
    /\ cur = [p \in Callers |-> NoCall]
    /\ ret = [p \in Callers |-> NoRet]
    /\ nextPool = 1
    /\ closes = [i \in PoolIds |-> 0]
    /\ owner = [i \in PoolIds |-> <<>>]
    /\ held = EmptyMap
    /\ atLock = EmptyMap
    /\ sharedKey \in Pairs \cup (FacadeTenants \X FacadeDSNs)
    /\ cancelled = [p \in Callers |-> FALSE]
    /\ failed = {}
    /\ InitApp

CallShared(p) == CallGetConnection(p, sharedKey[1], sharedKey[2])

NextSameKey ==
    \E p \in Callers :
        \/ CallShared(p)
        \/ Lock(p)
        \/ GetLookup(p)
        \/ GetParse(p)
        \/ NewWithConfigOK(p)
        \/ NewWithConfigFail(p)
        \/ GetInsert(p)
        \/ Unlock(p)

SpecSameKey == InitSameKey /\ [][NextSameKey]_vars

\* ------------------------------------------------------------ cancellation
\* GetConnection(ctx, tenantID, dsn) is called with the caller's ctx, which
\* the caller may cancel at any time while the call runs
Cancel(p) ==
    /\ pc[p] # "idle"
    /\ ~cancelled[p]
    /\ cancelled' = [cancelled EXCEPT ![p] = TRUE]
    /\ UNCHANGED <<pools, mutex, pc, cur, ret, nextPool, closes, owner, held, atLock, sharedKey, failed, appVars>>

\* contexts: the ctx of caller p's call is p; 0 is a context that is never done
\* the first argument of pgxpool.NewWithConfig(ctx, config) in caller p's call
NewWithConfigCtx(p) == p

\* ctx.Done() is closed
Done(ctx) == ctx # 0 /\ cancelled[ctx]

NextCancel ==
    \E p \in Callers :
        \/ \E t \in Tenants, d \in DSNs : CallGetConnection(p, t, d)
        \/ Cancel(p)
        \/ Lock(p)
        \/ GetLookup(p)
        \/ GetParse(p)
        \/ NewWithConfigOK(p)
        \/ NewWithConfigFail(p)
        \/ GetInsert(p)
        \/ Unlock(p)

SpecCancel == Init /\ [][NextCancel]_vars

\* a goroutine that holds the lock is not blocked: its next statement, or the
\* return of the library call it is in, eventually happens
HolderStep(p) ==
    \/ GetLookup(p)
    \/ GetParse(p)
    \/ NewWithConfigOK(p)
    \/ NewWithConfigFail(p)
    \/ GetInsert(p)
    \/ Unlock(p)

SpecCancelFair == SpecCancel /\ \A p \in Callers : WF_vars(HolderStep(p))

\* ------------------------------------------- acquire, release and inspect
\* goroutines that call GetConnection, ReleaseConnection and GetStats on the
\* pools of two tenants, one of the calls with a dsn ParseConfig rejects
ChurnPairs == {<<TenantA, DsnPU>>, <<TenantAP, DsnPU>>}

NextChurn ==
    \E p \in Callers :
        \/ \E K \in ChurnPairs : CallGetConnection(p, K[1], K[2])
        \/ CallGetConnection(p, TenantA, DsnU)
        \/ \E K \in ChurnPairs : CallReleaseConnection(p, K[1], K[2])
        \/ CallGetStats(p, TenantA, DsnPU)
        \/ RegistryStep(p)

SpecChurn == Init /\ [][NextChurn]_vars

\* the statements of a registry operation after cpm.poolLocks.Lock() has
\* returned, the deferred Unlock() included
CriticalStep(p) ==
    \/ GetLookup(p)
    \/ GetParse(p)
    \/ NewWithConfigOK(p)
    \/ NewWithConfigFail(p)
    \/ GetInsert(p)
    \/ ReleaseLookup(p)
    \/ ReleaseClose(p)
    \/ ReleaseDelete(p)
    \/ StatsLookup(p)
    \/ Unlock(p)

\* the three operations on the pool of one tenant, and a GetConnection with
\* a dsn ParseConfig rejects
NextOneKey ==
    \E p \in Callers :
        \/ \E d \in DSNs : CallGetConnection(p, TenantA, d)
        \/ CallReleaseConnection(p, TenantA, DsnPU)
        \/ CallGetStats(p, TenantA, DsnPU)
        \/ RegistryStep(p)

\* the lock holder runs on, ParseConfig, NewWithConfig and Close return, and
\* a goroutine blocked in Lock() is not passed over for ever (sync.Mutex
\* hands the lock to a waiter that has starved)
SpecOneKeyFair ==
    /\ Init /\ [][NextOneKey]_vars
    /\ \A p \in Callers : WF_vars(CriticalStep(p))
    /\ \A p \in Callers : SF_vars(Lock(p))

\* ===================================================================
\* The server process: Application.Run
\* ===================================================================
registryVars == <<pools, mutex, pc, cur, ret, nextPool, closes, owner, held, atLock, sharedKey, cancelled, failed>>

\* syscall.SIGINT, syscall.SIGTERM
Signals == {"SIGINT", "SIGTERM"}
\* http.ErrServerClosed
ErrServerClosed == Err(<<"http: Server closed">>)
\* grpc.ErrServerStopped
ErrServerStopped == Err(<<"grpc: the server has been stopped">>)
\* an error of lis.Accept that makes server.Serve return
AcceptErr == Err(<<"accept: use of closed network connection">>)
\* the error of ListenAndServeTLS when the certificate cannot be loaded
CertErr == Err(<<"open cert: no such file or directory">>)
\* what server.ListenAndServeTLS can return
HTTPServeErrors == {CertErr, ErrServerClosed}

\* fmt.Errorf("gRPC server error: %w", err)
GRPCServerError(err) == Err(<<"gRPC server error: ">> \o err.text)
\* fmt.Errorf("HTTP server error: %w", err)
HTTPServerError(err) == Err(<<"HTTP server error: ">> \o err.text)

\* Run: grpcErrChan := startGRPCServer(app.grpcServer, app.listener)
StartGRPCServer ==
    /\ runPc = "startGRPC"
    /\ grpcErrChan' = <<>>
    /\ grpcGo' = "spawned"
    /\ runPc' = "startHTTP"
    /\ UNCHANGED <<runRet, selected, httpGo, grpcServer, httpErrChan, signalChan, notified, sent, registryVars>>

\* Run: httpErrChan := startHTTPServer(app.httpServer, certFile, keyFile)
StartHTTPServer ==
    /\ runPc = "startHTTP"
    /\ httpErrChan' = <<>>
    /\ httpGo' = "spawned"
    /\ runPc' = "signal"
    /\ UNCHANGED <<runRet, selected, grpcGo, grpcServer, grpcErrChan, signalChan, notified, sent, registryVars>>

\* Run: signalChan := setupSignalHandler()
SetupSignalHandler ==
    /\ runPc = "signal"
    /\ signalChan' = <<>>
    /\ notified' = TRUE
    /\ runPc' = "select"
    /\ UNCHANGED <<runRet, selected, grpcGo, httpGo, grpcServer, grpcErrChan, httpErrChan, sent, registryVars>>

\* the goroutine of startGRPCServer calls server.Serve(listener): on a server
\* that was stopped already Serve returns ErrServerStopped at once, which the
\* goroutine sends
GRPCServeBegin ==
    /\ grpcGo = "spawned"
    /\ IF grpcServer = "stopped"
       THEN /\ grpcErrChan' = Append(grpcErrChan, ErrServerStopped)
            /\ sent' = sent \cup {"grpc"}
            /\ grpcGo' = "done"
            /\ grpcServer' = grpcServer
       ELSE /\ grpcServer' = "serving"
            /\ grpcGo' = "serving"
            /\ UNCHANGED <<grpcErrChan, sent>>
    /\ UNCHANGED <<runPc, runRet, selected, httpGo, httpErrChan, signalChan, notified, registryVars>>

\* server.Serve returns: nil once the server has been stopped, an error of
\* the listener otherwise; if err != nil { errChan <- err }
GRPCServeReturns ==
    /\ grpcGo = "serving"
    /\ IF grpcServer = "stopped"
       THEN UNCHANGED <<grpcErrChan, sent>>
       ELSE /\ grpcErrChan' = Append(grpcErrChan, AcceptErr)
            /\ sent' = sent \cup {"grpc"}
    /\ grpcGo' = "done"
    /\ UNCHANGED <<runPc, runRet, selected, httpGo, grpcServer, httpErrChan, signalChan, notified, registryVars>>

\* variant: every error of ListenAndServeTLS is sent, http.ErrServerClosed
\* too
HTTPServeReturnsUnfiltered(err) ==
    /\ httpGo = "spawned"
    /\ httpErrChan' = Append(httpErrChan, err)
    /\ sent' = sent \cup {"http"}
    /\ httpGo' = "done"
    /\ UNCHANGED <<runPc, runRet, selected, grpcGo, grpcServer, grpcErrChan, signalChan, notified, registryVars>>

\* the goroutine of startHTTPServer: server.ListenAndServeTLS returns err;
\* if err != nil && err != http.ErrServerClosed { errChan <- err }
HTTPServeReturns(err) ==
    /\ httpGo = "spawned"
    /\ IF err # ErrServerClosed
       THEN /\ httpErrChan' = Append(httpErrChan, err)
            /\ sent' = sent \cup {"http"}
       ELSE UNCHANGED <<httpErrChan, sent>>
    /\ httpGo' = "done"
    /\ UNCHANGED <<runPc, runRet, selected, grpcGo, grpcServer, grpcErrChan, signalChan, notified, registryVars>>

\* the runtime delivers a signal that signal.Notify registered: the send does
\* not block, a signal that finds the channel full is dropped
Signal(sig) ==
    /\ notified
    /\ Len(signalChan) < 1
    /\ signalChan' = Append(signalChan, sig)
    /\ sent' = sent \cup {"signal"}
    /\ UNCHANGED <<runPc, runRet, selected, grpcGo, httpGo, grpcServer, grpcErrChan, httpErrChan, notified, registryVars>>

\* Run: case err := <-grpcErrChan: return fmt.Errorf(...)
SelectGRPCErr ==
    /\ runPc = "select"
    /\ grpcErrChan # <<>>
    /\ runRet' = GRPCServerError(Head(grpcErrChan))
    /\ grpcErrChan' = Tail(grpcErrChan)
    /\ selected' = "grpc"
    /\ runPc' = "returned"
    /\ UNCHANGED <<grpcGo, httpGo, grpcServer, httpErrChan, signalChan, notified, sent, registryVars>>

\* Run: case err := <-httpErrChan: return fmt.Errorf(...)
SelectHTTPErr ==
    /\ runPc = "select"
    /\ httpErrChan # <<>>
    /\ runRet' = HTTPServerError(Head(httpErrChan))
    /\ httpErrChan' = Tail(httpErrChan)
    /\ selected' = "http"
    /\ runPc' = "returned"
    /\ UNCHANGED <<grpcGo, httpGo, grpcServer, grpcErrChan, signalChan, notified, sent, registryVars>>

\* Run: case <-signalChan:
SelectSignal ==
    /\ runPc = "select"
    /\ signalChan # <<>>
    /\ signalChan' = Tail(signalChan)
    /\ selected' = "signal"
    /\ runPc' = "stop"
    /\ UNCHANGED <<runRet, grpcGo, httpGo, grpcServer, grpcErrChan, httpErrChan, notified, sent, registryVars>>

\* Run: app.grpcServer.GracefulStop()
GracefulStop ==
    /\ runPc = "stop"
    /\ grpcServer' = "stopped"
    /\ runPc' = "return"
    /\ UNCHANGED <<runRet, selected, grpcGo, httpGo, grpcErrChan, httpErrChan, signalChan, notified, sent, registryVars>>

\* Run: return nil
RunReturnNil ==
    /\ runPc = "return"
    /\ runRet' = NilErr
    /\ runPc' = "returned"
    /\ UNCHANGED <<selected, grpcGo, httpGo, grpcServer, grpcErrChan, httpErrChan, signalChan, notified, sent, registryVars>>

NextApp ==
    \/ StartGRPCServer
    \/ StartHTTPServer
    \/ SetupSignalHandler
    \/ GRPCServeBegin
    \/ GRPCServeReturns
    \/ \E err \in HTTPServeErrors : HTTPServeReturns(err)
    \/ \E sig \in Signals : Signal(sig)
    \/ SelectGRPCErr
    \/ SelectHTTPErr
    \/ SelectSignal
    \/ GracefulStop
    \/ RunReturnNil

SpecApp == Init /\ [][NextApp]_vars

\* ===================================================================
\* Properties
\* ===================================================================
Returning(p, op) == pc[p] = "unlock" /\ cur[p].op = op
Constructed == 1..(nextPool - 1)
\* instances that were constructed and never closed
LivePools == {i \in Constructed : closes[i] = 0}
AllPairs == Pairs \cup (FacadeTenants \X FacadeDSNs)
\* the live instances that belong to the pair K: built for it, or registered
\* under its key
EntriesOf(K) ==
    {i \in LivePools :
        \/ owner[i] = K
        \/ Key(K[1], K[2]) \in DOMAIN pools /\ pools[Key(K[1], K[2])] = i}

\* C1: in every reachable state, whatever the interleaving of GetConnection,
\* ReleaseConnection and GetStats calls, there is at most one live pool
\* instance per (tenant, dsn).
C1_AtMostOneLivePerKey ==
    \A K \in AllPairs : Cardinality(EntriesOf(K)) <= 1

\* C1 witness: a caller is handed the registered live instance of its key
\* while another caller is inside or waiting for a call of its own.
C1_Witness ==
    \E p \in Callers, q \in Callers :
        /\ p # q
        /\ Returning(p, "GetConnection")
        /\ ret[p].err.nil
        /\ atLock = pools
        /\ EntriesOf(CurPair(p)) = {ret[p].pool}
        /\ pc[q] = "lock"

\* C2: when all callers ask for the same (tenant, dsn) on an empty registry,
\* every successful call returns the one registered instance, which is the
\* instance every earlier successful call returned, and once all calls are
\* complete the registry holds exactly that one entry.
C2_SameKeyOneEntry ==
    /\ \A p \in Callers :
          (Returning(p, "GetConnection") /\ ret[p].err.nil) =>
              /\ DOMAIN pools = {Key(sharedKey[1], sharedKey[2])}
              /\ ret[p].pool = pools[Key(sharedKey[1], sharedKey[2])]
              /\ sharedKey \in DOMAIN held => held[sharedKey] = ret[p].pool
    /\ ((\A p \in Callers : pc[p] = "idle") /\ sharedKey \in DOMAIN held) =>
          /\ Cardinality(DOMAIN pools) = 1
          /\ pools[Key(sharedKey[1], sharedKey[2])] = held[sharedKey]

\* C2 witness: a caller is handed the entry an earlier caller already
\* received, while another caller's call for the same key is pending.
C2_Witness ==
    \E p \in Callers, q \in Callers :
        /\ p # q
        /\ Returning(p, "GetConnection")
        /\ ret[p].err.nil
        /\ sharedKey \in DOMAIN held
        /\ pc[q] = "lock"

\* C3 (as claimed): a successful GetConnection for (tenant, dsn) returns the
\* instance the previous successful GetConnection for that pair returned,
\* unless a ReleaseConnection for that pair succeeded in between.
C3_SameInstanceUntilReleased ==
    \A p \in Callers :
        (Returning(p, "GetConnection") /\ ret[p].err.nil
            /\ CurPair(p) \in DOMAIN held) =>
                ret[p].pool = held[CurPair(p)]

\* C4: a GetConnection that fails, in parsing or in construction, returns no
\* pool and leaves cpm.pools as it was when the call took the lock.
C4_FailedGetLeavesRegistry ==
    \A p \in Callers :
        (Returning(p, "GetConnection") /\ ~ret[p].err.nil) =>
            /\ ret[p].pool = 0
            /\ pools = atLock
            /\ (atLock = EmptyMap => Cardinality(DOMAIN pools) = 0)

\* C4 witness: a failed construction returns while the registry holds an
\* entry of another key.
C4_Witness ==
    \E p \in Callers :
        /\ Returning(p, "GetConnection")
        /\ ret[p].err = NewPoolErr
        /\ pools # EmptyMap

\* C5 (as claimed): ReleaseConnection for a (tenant, dsn) that was never
\* created, or was released with no successful GetConnection since, fails
\* with "pool not found" and leaves the registry unchanged.
C5_ReleaseAbsentFails ==
    \A p \in Callers :
        (Returning(p, "ReleaseConnection") /\ CurPair(p) \notin DOMAIN held) =>
            /\ IsPoolNotFound(ret[p].err)
            /\ pools = atLock

\* C6 (as claimed): GetStats for a (tenant, dsn) that has no pool, none
\* created for it or none since its release, fails with "pool not found" and
\* returns Stats{}.
C6_StatsAbsentFails ==
    \A p \in Callers :
        (Returning(p, "GetStats") /\ CurPair(p) \notin DOMAIN held) =>
            /\ IsPoolNotFound(ret[p].err)
            /\ ret[p].stats = ZeroStats

\* C7: no step of a GetStats call, made directly or through the facade's
\* GetPoolStats, changes the keys of the registry, the instance bound to a
\* key, or whether an instance is open.
C7_StatsChangesNothing ==
    [][\A p \in Callers :
          (cur[p].op = "GetStats" /\ pc'[p] # pc[p]) =>
              /\ pools' = pools
              /\ closes' = closes
              /\ (pc[p] = "unlock" => pools = atLock)]_vars

\* C7 witness: a GetPoolStats of the facade returns the statistics of a
\* registered pool.
C7_Witness ==
    \E p \in Callers :
        /\ Returning(p, "GetStats")
        /\ cur[p].facade
        /\ ret[p].err.nil
        /\ CurKey(p) \in DOMAIN pools

\* C8 (as claimed): two (tenant, dsn) pairs that differ in a field never
\* share a pool: the instance a successful GetConnection returns was built
\* for the pair of that call.
C8_DistinctPairsDistinctEntries ==
    \A p \in Callers :
        (Returning(p, "GetConnection") /\ ret[p].err.nil) =>
            owner[ret[p].pool] = CurPair(p)

\* C9 (as claimed): an entry leaves the registry only in the delete step of
\* a ReleaseConnection for the pair it was built for, it is never replaced,
\* and an instance that was closed is never registered again.
C9_RemovedOnlyByOwnRelease ==
    [][/\ \A k \in DOMAIN pools :
            (k \notin DOMAIN pools' \/ pools'[k] # pools[k]) =>
                /\ k \notin DOMAIN pools'
                /\ \E p \in Callers :
                      /\ pc[p] = "delete"
                      /\ pc'[p] = "unlock"
                      /\ cur[p].op = "ReleaseConnection"
                      /\ ret'[p].err.nil
                      /\ CurPair(p) = owner[pools[k]]
       /\ \A k \in DOMAIN pools' :
            k \notin DOMAIN pools => closes[pools'[k]] = 0
       /\ \A i \in PoolIds : closes'[i] <= 1]_vars

\* C10: when the registry call of the facade's GetConnection fails, the
\* response has an empty ConnectionId and a non-empty Error, a non-nil error
\* goes to the transport, and no pool is registered under the key of the
\* request when the call returns.
C10_FailedFacadeGet ==
    \A p \in Callers :
        (Returning(p, "GetConnection") /\ cur[p].facade /\ ~ret[p].err.nil) =>
            /\ \A ts \in Timestamps :
                  LET r == GetConnectionResponse(ret[p].err, cur[p].tenant, ts) IN
                      /\ r.ConnectionId = <<>>
                      /\ r.Error # <<>>
                      /\ ~r.err.nil
            /\ CurKey(p) \notin DOMAIN pools

\* C10 witness: the facade's GetConnection returns the parse error of an
\* invalid descriptor while pools of other requests are registered.
C10_Witness ==
    \E p \in Callers :
        /\ Returning(p, "GetConnection")
        /\ cur[p].facade
        /\ ret[p].err = ParseErr(DsnU)
        /\ pools # EmptyMap

\* C11: a facade GetConnection whose registry call succeeds, for any tenant
\* (the empty one included), returns the handle "conn-" + tenant + "-" +
\* timestamp, an empty error text and no transport error.
C11_SuccessfulFacadeGet ==
    \A p \in Callers :
        (Returning(p, "GetConnection") /\ cur[p].facade /\ ret[p].err.nil) =>
            \A ts \in Timestamps :
                LET r == GetConnectionResponse(ret[p].err, cur[p].tenant, ts)
                IN  /\ r.ConnectionId =
                           <<"c", "o", "n", "n", "-">> \o cur[p].tenant \o <<"-">> \o ts
                    /\ r.Error = <<>>
                    /\ r.err.nil

C11_Witness ==
    \E p \in Callers :
        /\ Returning(p, "GetConnection")
        /\ cur[p].facade
        /\ ret[p].err.nil
        /\ cur[p].tenant = TenantEmpty
        /\ CurKey(p) \in DOMAIN pools

FacadeReturning(p) == cur[p].facade /\ pc[p] \in {"unlock", "reject"}

FacadeFailing(p) == pc[p] = "reject" \/ ~ret[p].err.nil

\* C12: every failing call of the facade's GetConnection, ReleaseConnection
\* and GetPoolStats returns a non-nil transport error and a non-empty
\* response error text, and the two carry the same message; every
\* successful call returns a nil transport error and an empty error text.
C12_ErrorChannelsAgree ==
    \A p \in Callers :
        FacadeReturning(p) =>
            \A ts \in Timestamps :
                LET r == FacadeResponse(p, ts)
                IN  IF FacadeFailing(p)
                    THEN /\ ~r.err.nil
                         /\ r.Error # <<>>
                         /\ r.Error = r.err.text
                    ELSE /\ r.err.nil
                         /\ r.Error = <<>>

C12_Witness ==
    \E p \in Callers :
        /\ Returning(p, "ReleaseConnection")
        /\ cur[p].facade
        /\ IsPoolNotFound(ret[p].err)
        /\ \E q \in Callers :
               /\ pc[q] = "reject"
               /\ cur[q].connId = ConnPrefix

HasDash(t) == \E i \in 1..Len(t) : t[i] = "-"

\* the part of t before its first "-"
BeforeDash(t) ==
    LET i == CHOOSE j \in 1..Len(t) :
                 /\ t[j] = "-"
                 /\ \A k \in 1..(j - 1) : t[k] # "-"
    IN  SubSeq(t, 1, i - 1)

\* the facade's ReleaseConnection has decoded the handle caller p presented
Decoding(p) ==
    /\ cur[p].op = "ReleaseConnection"
    /\ cur[p].facade
    /\ pc[p] # "reject"

\* C13: the tenant ReleaseConnection decodes from the handle GetConnection
\* minted for a tenant is that tenant exactly when the tenant contains no
\* "-"; when it contains one, the decoded tenant is the part of the tenant
\* before its first "-".
C13_DecodeOfMintedHandle ==
    \A p \in Callers :
        Decoding(p) =>
            \A t \in FacadeTenants, ts \in Timestamps :
                (cur[p].connId = ConnID(t, ts)) =>
                    /\ (cur[p].tenant = t) <=> ~HasDash(t)
                    /\ HasDash(t) => cur[p].tenant = BeforeDash(t)

C13_Witness ==
    \E p \in Callers :
        /\ Decoding(p)
        /\ pc[p] = "unlock"
        /\ cur[p].connId = ConnID(TenantAB, <<"1">>)
        /\ cur[p].tenant = TenantA
        /\ Key(TenantAB, FixedDSN) \in DOMAIN pools

\* caller p starts a facade ReleaseConnection with a handle that has no "-"
ShortHandleCall(p) ==
    /\ pc[p] = "idle"
    /\ cur'[p].op = "ReleaseConnection"
    /\ cur'[p].facade
    /\ Len(Split(cur'[p].connId, "-")) < 2

\* C14: the facade's ReleaseConnection, given a handle that splits into fewer
\* than two parts (no "-" in it; the empty handle included), makes no call
\* to the registry and leaves the registry as it is, and returns Success
\* false with the error "invalid connection ID".
C14_ShortHandleRejected ==
    [][\A p \in Callers :
          /\ ShortHandleCall(p) =>
                 /\ pc'[p] = "reject"
                 /\ UNCHANGED <<pools, mutex, closes, nextPool, ret>>
          /\ (pc[p] = "reject") =>
                 /\ mutex # p
                 /\ \A ts \in Timestamps :
                        LET r == FacadeResponse(p, ts)
                        IN  /\ r.Success = FALSE
                            /\ r.Error = <<"invalid connection ID">>
                            /\ r.err = Err(<<"invalid connection ID">>)
                 /\ (pc'[p] # "reject") =>
                        /\ pc'[p] = "idle"
                        /\ UNCHANGED <<pools, mutex, closes, nextPool, ret>>]_vars

C14_Witness ==
    \E p \in Callers :
        /\ pc[p] = "reject"
        /\ cur[p].connId = <<>>
        /\ pools # EmptyMap

\* C15 (as claimed): the facade's ReleaseConnection calls the registry with
\* the tenant decoded from the handle and the fixed descriptor, whatever dsn
\* the pool was created under; it succeeds exactly when a pool exists for
\* (decoded tenant, fixed descriptor), and a successful call removes that
\* pool's entry and no other.
C15_FacadeReleaseFixedDescriptor ==
    \A p \in Callers :
        (Returning(p, "ReleaseConnection") /\ cur[p].facade) =>
            /\ cur[p].tenant = Split(cur[p].connId, "-")[2]
            /\ cur[p].dsn = FixedDSN
            /\ ret[p].err.nil <=> (<<cur[p].tenant, FixedDSN>> \in DOMAIN held)
            /\ ret[p].err.nil =>
                   /\ DOMAIN pools = DOMAIN atLock \ {Key(cur[p].tenant, FixedDSN)}
                   /\ \A k \in DOMAIN pools : pools[k] = atLock[k]
                   /\ owner[atLock[Key(cur[p].tenant, FixedDSN)]] =
                          <<cur[p].tenant, FixedDSN>>

\* C16 (as claimed): the facade's GetPoolStats for a tenant succeeds exactly
\* when a pool exists for (tenant, fixed descriptor); for a tenant whose
\* pools were all created under other descriptors it fails with "pool not
\* found".
C16_FacadeStatsFixedDescriptor ==
    \A p \in Callers :
        (Returning(p, "GetStats") /\ cur[p].facade) =>
            /\ cur[p].dsn = FixedDSN
            /\ ret[p].err.nil <=> (<<cur[p].tenant, FixedDSN>> \in DOMAIN held)
            /\ ~ret[p].err.nil => IsPoolNotFound(ret[p].err)

\* C17 (as claimed): after a successful GetConnection(tenant, dsn) of the
\* facade, with no release of that pool in between, GetPoolStats(tenant)
\* succeeds and ReleaseConnection of the handle minted for the tenant
\* succeeds.
C17_DocumentedFlow ==
    \A p \in Callers :
        (pc[p] = "unlock" /\ cur[p].facade) =>
            /\ (/\ cur[p].op = "GetStats"
                /\ \E d \in FacadeDSNs : <<cur[p].tenant, d>> \in DOMAIN held)
                   => ret[p].err.nil
            /\ (/\ cur[p].op = "ReleaseConnection"
                /\ \E t \in FacadeTenants, ts \in Timestamps, d \in FacadeDSNs :
                       /\ cur[p].connId = ConnID(t, ts)
                       /\ <<t, d>> \in DOMAIN held)
                   => ret[p].err.nil

\* C17 (amended): after a successful GetConnection(tenant, fixed descriptor)
\* of the facade for a tenant without "-", with no successful release
\* decoding to that tenant in between, GetPoolStats(tenant) succeeds and
\* changes nothing, and ReleaseConnection of the handle minted for the
\* tenant succeeds.
C17_FlowWithFixedDescriptor ==
    \A p \in Callers :
        (pc[p] = "unlock" /\ cur[p].facade) =>
            /\ (/\ cur[p].op = "GetConnection"
                /\ cur[p].dsn = FixedDSN
                /\ ret[p].err.nil)
                   => Key(cur[p].tenant, FixedDSN) \in DOMAIN pools
            /\ (/\ cur[p].op = "GetStats"
                /\ <<cur[p].tenant, FixedDSN>> \in DOMAIN held)
                   => (ret[p].err.nil /\ pools = atLock)
            /\ (/\ cur[p].op = "ReleaseConnection"
                /\ \E t \in FacadeTenants, ts \in Timestamps :
                       /\ ~HasDash(t)
                       /\ cur[p].connId = ConnID(t, ts)
                       /\ <<t, FixedDSN>> \in DOMAIN held)
                   => ret[p].err.nil

C17_Witness ==
    \E p \in Callers :
        /\ Returning(p, "ReleaseConnection")
        /\ cur[p].facade
        /\ cur[p].connId = ConnID(TenantA, <<"1">>)
        /\ <<TenantA, FixedDSN>> \in DOMAIN held
        /\ ret[p].err.nil
        /\ Key(TenantA, FixedDSN) \notin DOMAIN pools

\* the steps a registry operation runs between Lock() and the deferred
\* Unlock(), the Unlock() itself included
CriticalPcs == {"lookup", "parse", "construct", "insert", "close", "delete", "unlock"}

\* C18: at most one registry operation is inside its critical section at any
\* time, and it holds the lock through all of it, pool construction
\* included: while one GetConnection constructs a pool, every other
\* operation, on whatever key, is idle or waiting for the lock.
C18_MutualExclusion ==
    \A p \in Callers :
        (pc[p] \in CriticalPcs) =>
            /\ mutex = p
            /\ \A q \in Callers \ {p} : pc[q] \in {"idle", "lock"}

C18_Witness ==
    \E p, q \in Callers :
        /\ pc[p] = "construct"
        /\ pc[q] = "lock"
        /\ cur[q].op = "GetStats"
        /\ CurKey(q) # CurKey(p)
        /\ CurKey(q) \in DOMAIN pools

\* ---------------------------------------------------- sequential registry
\* What GetConnection, ReleaseConnection and GetStats do to a registry m
\* when they run alone from entry to return: the possible pairs of returned
\* values and registry afterwards.
SeqGetConnection(m, tenantID, dsn) ==
    LET key == Key(tenantID, dsn)
    IN  IF key \in DOMAIN m
        THEN {[pools |-> m, ret |-> [NoRet EXCEPT !.pool = m[key]]]}
        ELSE IF ~ParseConfigOK(dsn)
        THEN {[pools |-> m, ret |-> [NoRet EXCEPT !.err = ParseErr(dsn)]]}
        ELSE {[pools |-> m, ret |-> [NoRet EXCEPT !.err = NewPoolErr]]}
             \cup {[pools |-> [k \in DOMAIN m \cup {key} |->
                                  IF k = key THEN i ELSE m[k]],
                    ret |-> [NoRet EXCEPT !.pool = i]] :
                       i \in PoolIds \ {m[k] : k \in DOMAIN m}}

SeqReleaseConnection(m, tenantID, dsn) ==
    LET key == Key(tenantID, dsn)
    IN  IF key \in DOMAIN m
        THEN {[pools |-> [k \in DOMAIN m \ {key} |-> m[k]], ret |-> NoRet]}
        ELSE {[pools |-> m,
               ret |-> [NoRet EXCEPT !.err = PoolNotFoundErr(tenantID, dsn)]]}

SeqGetStats(m, tenantID, dsn) ==
    LET key == Key(tenantID, dsn)
    IN  IF key \in DOMAIN m
        THEN {[pools |-> m, ret |-> [NoRet EXCEPT !.stats = st]] : st \in StatSnapshots}
        ELSE {[pools |-> m,
               ret |-> [NoRet EXCEPT !.err = PoolNotFoundErr(tenantID, dsn)]]}

SeqOutcomes(m, call) ==
    IF call.op = "GetConnection" THEN SeqGetConnection(m, call.tenant, call.dsn)
    ELSE IF call.op = "ReleaseConnection"
         THEN SeqReleaseConnection(m, call.tenant, call.dsn)
    ELSE SeqGetStats(m, call.tenant, call.dsn)

\* C19: registry operations are linearizable.  Every operation takes effect
\* as one step of the sequential registry, at a point between its call and
\* its return: what it returns and the registry it leaves are what the
\* operation run alone produces from the registry it found when it took the
\* lock, and between taking the lock and returning no other operation
\* changes the registry.
C19_Linearizable ==
    [][/\ (pools' # pools) =>
              \E p \in Callers :
                  /\ mutex = p
                  /\ pc[p] \in {"insert", "delete"}
                  /\ pc'[p] = "unlock"
       /\ \A p \in Callers :
              (pc[p] = "unlock" /\ pc'[p] = "idle") =>
                  [pools |-> pools, ret |-> ret[p]] \in SeqOutcomes(atLock, cur[p])
       /\ \A p \in Callers :
              (pc[p] = "lock" /\ pc'[p] = "lookup") => atLock' = pools']_vars

C19_Witness ==
    \E p, q \in Callers :
        /\ Returning(p, "ReleaseConnection")
        /\ ret[p].err.nil
        /\ pc[q] = "lock"
        /\ cur[q].op = "GetConnection"
        /\ CurKey(q) = CurKey(p)
        /\ pools # EmptyMap

\* C20 (as claimed): no cancellation reaches pool construction: the context
\* pgxpool.NewWithConfig runs with is never one that has been cancelled.
C20_NoCancellationInConstruction ==
    \A p \in Callers :
        (pc[p] = "construct") => ~Done(NewWithConfigCtx(p))

CancelledReturn(p) ==
    (Returning(p, "GetConnection") /\ cancelled[p]) =>
        IF ret[p].err.nil
        THEN /\ CurKey(p) \in DOMAIN pools
             /\ pools[CurKey(p)] = ret[p].pool
        ELSE /\ ret[p].err \in {ParseErr(cur[p].dsn), NewPoolErr}
             /\ pools = atLock

Inserted(p) ==
    /\ pc[p] = "unlock"
    /\ ret[p].err.nil
    /\ CurKey(p) \in DOMAIN pools
    /\ pools[CurKey(p)] = ret[p].pool

\* C20 (amended): the registry itself never acts on a cancellation.  A
\* GetConnection whose caller has cancelled while the pool is constructed
\* still reaches its return; once pgxpool.NewWithConfig has returned a pool
\* the call inserts and returns it; a cancelled call fails only with the
\* error of ParseConfig or NewWithConfig, leaving the registry as it found
\* it.
C20_CancelledCallStillInserts ==
    /\ [](\A p \in Callers : CancelledReturn(p))
    /\ \A p \in Callers :
           (pc[p] = "construct" /\ cancelled[p]) ~> (pc[p] = "unlock")
    /\ \A p \in Callers :
           (pc[p] = "insert" /\ cancelled[p]) ~> Inserted(p)

C20_Witness ==
    \E p \in Callers :
        /\ Returning(p, "GetConnection")
        /\ cancelled[p]
        /\ ret[p].err.nil
        /\ CurKey(p) \notin DOMAIN atLock
        /\ pools[CurKey(p)] = ret[p].pool

\* C21: failures are not cached and not retried.  A GetConnection that
\* finds its key absent parses and constructs, also when an earlier
\* GetConnection for that (tenant, dsn) has failed; it returns the pool built
\* in this call when parsing and construction succeed, and the error of the
\* one that fails otherwise; a call enters construction at most once, from
\* parsing, and leaves it for the insertion or for its return.
C21_FailuresNotCached ==
    [][\A p \in Callers :
          (cur[p].op = "GetConnection") =>
              /\ (pc[p] = "lookup" /\ CurKey(p) \notin DOMAIN pools
                      /\ pc'[p] # "lookup") => pc'[p] = "parse"
              /\ (pc[p] = "parse" /\ pc'[p] # "parse") =>
                     IF ParseConfigOK(cur[p].dsn)
                     THEN pc'[p] = "construct"
                     ELSE pc'[p] = "unlock" /\ ret'[p].err = ParseErr(cur[p].dsn)
              /\ (pc'[p] = "construct" /\ pc[p] # "construct") => pc[p] = "parse"
              /\ (pc[p] = "construct" /\ pc'[p] # "construct") =>
                     \/ pc'[p] = "unlock" /\ ret'[p].err = NewPoolErr
                     \/ /\ pc'[p] = "insert"
                        /\ ret'[p].pool = nextPool
                        /\ nextPool' = nextPool + 1
              /\ (pc[p] = "insert" /\ pc'[p] # "insert") =>
                     /\ pc'[p] = "unlock"
                     /\ ret'[p].err.nil
                     /\ pools'[CurKey(p)] = ret[p].pool
              /\ (pc[p] = "unlock" /\ pc'[p] # "unlock") => pc'[p] = "idle"]_vars

\* C21 witness: a GetConnection returns the pool it has built for a
\* (tenant, dsn) for which an earlier GetConnection failed.
C21_Witness ==
    \E p \in Callers :
        /\ Returning(p, "GetConnection")
        /\ CurPair(p) \in failed
        /\ ret[p].err.nil
        /\ CurKey(p) \notin DOMAIN atLock
        /\ pools[CurKey(p)] = ret[p].pool

\* C22: when a ReleaseConnection of the facade succeeds, the pool it found
\* under its key has been closed exactly once and the key is gone from the
\* registry; a GetPoolStats or ReleaseConnection for that tenant that finds
\* the key gone fails with "pool not found" and changes nothing; no pool is
\* ever closed twice.
C22_ReleasedIsClosedAndGone ==
    /\ \A i \in PoolIds : closes[i] <= 1
    /\ \A p \in Callers :
           (pc[p] = "unlock" /\ cur[p].facade) =>
               /\ (cur[p].op = "ReleaseConnection" /\ ret[p].err.nil) =>
                      /\ CurKey(p) \in DOMAIN atLock
                      /\ closes[atLock[CurKey(p)]] = 1
                      /\ CurKey(p) \notin DOMAIN pools
               /\ (cur[p].op \in {"ReleaseConnection", "GetStats"}
                      /\ CurKey(p) \notin DOMAIN atLock) =>
                      /\ IsPoolNotFound(ret[p].err)
                      /\ pools = atLock

\* C22 witness: a ReleaseConnection of the facade fails for a tenant whose
\* pool an earlier release has closed.
C22_Witness ==
    \E p \in Callers :
        /\ Returning(p, "ReleaseConnection")
        /\ cur[p].facade
        /\ IsPoolNotFound(ret[p].err)
        /\ \E i \in Constructed : owner[i] = CurPair(p) /\ closes[i] = 1

\* the settings pool instance i was built with
PoolConfig(i) == NewConfig(owner[i][2])

\* C23: every pool the registry creates is configured with max connections
\* 20, min connections 5, max connection lifetime 30 minutes and max idle
\* time 5 minutes, whatever the tenant and the dsn of the request: both the
\* config a call is about to construct with and the settings of every pool
\* built.
C23_FixedPoolSettings ==
    LET Fixed == [MaxConns |-> 20, MinConns |-> 5,
                  MaxConnLifetime |-> 30, MaxConnIdleTime |-> 5]
    IN  /\ \A p \in Callers :
               (pc[p] = "construct") => NewConfig(cur[p].dsn) = Fixed
        /\ \A i \in Constructed : PoolConfig(i) = Fixed

\* C23 witness: pools have been built for two tenants, from a descriptor
\* that asks for other settings.
C23_Witness ==
    \E i, j \in Constructed :
        /\ owner[i][1] # owner[j][1]
        /\ ParseConfig(owner[i][2]) # LibraryDefaults
        /\ \E k \in DOMAIN pools : pools[k] = i

\* C24 (as claimed): the pool settings can be chosen per request: a pool
\* built from a descriptor that asks for settings of its own has those
\* settings.
C24_SettingsFollowRequest ==
    \A i \in Constructed :
        (ParseConfig(owner[i][2]) # LibraryDefaults) =>
            PoolConfig(i) = ParseConfig(owner[i][2])

\* the keys for which a GetConnection has built and inserted a pool
SucceededKeys ==
    {Key(owner[i][1], owner[i][2]) :
        i \in {j \in Constructed : \A p \in Callers : pc[p] = "insert" => ret[p].pool # j}}

\* C25: the registry has no quota.  It never holds more entries than there
\* are distinct keys for which a GetConnection has succeeded, and a
\* GetConnection for a key that is not registered is refused only by
\* ParseConfig or NewWithConfig, however many entries are registered: when
\* the dsn parses the call goes on to construct, and it fails only with the
\* error of the step that failed.
C25_NoQuota ==
    [][/\ DOMAIN pools \subseteq SucceededKeys
       /\ Cardinality(DOMAIN pools) <= Cardinality(SucceededKeys)
       /\ \A p \in Callers :
              (cur[p].op = "GetConnection") =>
                  /\ (pc[p] = "parse" /\ pc'[p] # "parse"
                          /\ ParseConfigOK(cur[p].dsn)) => pc'[p] = "construct"
                  /\ (pc[p] = "unlock" /\ ~ret[p].err.nil) =>
                         \/ ret[p].err = NewPoolErr
                         \/ ret[p].err = ParseErr(cur[p].dsn)
                                /\ ~ParseConfigOK(cur[p].dsn)]_vars

\* C25 witness: a GetConnection adds an entry to a registry that already
\* holds one.
C25_Witness ==
    \E p \in Callers :
        /\ Returning(p, "GetConnection")
        /\ ret[p].err.nil
        /\ CurKey(p) \notin DOMAIN atLock
        /\ atLock # EmptyMap
        /\ Cardinality(DOMAIN pools) = Cardinality(DOMAIN atLock) + 1

\* C26 (as claimed): a facade ReleaseConnection whose handle does not start
\* with the segment "conn" returns an error and Success false, in every
\* state of the registry, and releases no pool.
C26_ForeignPrefixRejected ==
    \A p \in Callers :
        (/\ FacadeReturning(p)
         /\ cur[p].op = "ReleaseConnection"
         /\ Split(cur[p].connId, "-")[1] # ConnPrefix) =>
            /\ \A ts \in Timestamps :
                   LET r == FacadeResponse(p, ts)
                   IN  ~r.err.nil /\ r.Success = FALSE
            /\ pc[p] = "unlock" => pools = atLock

\* C27: a handle minted for a tenant that contains "-" decodes to another
\* tenant, the part before the first "-".  A ReleaseConnection with that
\* handle never releases the pool of the tenant it was minted for; it
\* releases the pool registered for (decoded tenant, fixed descriptor) when
\* there is one, and fails with "pool not found" otherwise.
C27_HandleOfDashedTenant ==
    \A p \in Callers :
        (Decoding(p) /\ pc[p] = "unlock") =>
            \A t \in FacadeTenants, ts \in Timestamps :
                (HasDash(t) /\ cur[p].connId = ConnID(t, ts)) =>
                    LET own == Key(t, FixedDSN)
                        other == Key(BeforeDash(t), FixedDSN)
                    IN  /\ cur[p].tenant = BeforeDash(t)
                        /\ cur[p].tenant # t
                        /\ own \in DOMAIN atLock =>
                               /\ own \in DOMAIN pools
                               /\ pools[own] = atLock[own]
                               /\ closes[pools[own]] = 0
                        /\ IF other \in DOMAIN atLock
                           THEN /\ ret[p].err.nil
                                /\ other \notin DOMAIN pools
                                /\ closes[atLock[other]] = 1
                           ELSE /\ IsPoolNotFound(ret[p].err)
                                /\ pools = atLock

\* C27 witness: the handle minted for "a-b" has released the pool of "a",
\* and the pool of "a-b" is still registered.
C27_Witness ==
    \E p \in Callers :
        /\ Returning(p, "ReleaseConnection")
        /\ cur[p].facade
        /\ cur[p].connId = ConnID(TenantAB, <<"1">>)
        /\ ret[p].err.nil
        /\ Key(TenantAB, FixedDSN) \in DOMAIN pools
        /\ owner[atLock[Key(TenantA, FixedDSN)]] = <<TenantA, FixedDSN>>

\* C28 (as claimed): a pool that the facade's GetConnection created under a
\* dsn other than the fixed descriptor stays registered and open for the
\* rest of the execution, and no GetPoolStats of the facade reads it,
\* whatever handles and tenants are presented.
C28_OtherDsnPoolStays ==
    [][\A k \in DOMAIN pools :
          (owner[pools[k]][2] # FixedDSN) =>
              /\ k \in DOMAIN pools'
              /\ pools'[k] = pools[k]
              /\ closes'[pools[k]] = 0
              /\ \A p \in Callers :
                     (/\ pc'[p] = "unlock"
                      /\ cur'[p].facade
                      /\ cur'[p].op = "GetStats"
                      /\ Key(cur'[p].tenant, cur'[p].dsn) = k) => ~ret'[p].err.nil]_vars

\* C29: handles are neither recorded nor counted.  Whether a facade
\* ReleaseConnection succeeds depends only on the registry: with any handle
\* of two or more parts, minted or not, it succeeds exactly when a pool is
\* registered under (decoded tenant, fixed descriptor), and then destroys
\* that pool however many handles were given out for it; every further
\* release finds no pool and fails with "pool not found", until a
\* GetConnection registers one again.
C29_HandlesNotCounted ==
    \A p \in Callers :
        (Returning(p, "ReleaseConnection") /\ cur[p].facade) =>
            IF CurKey(p) \in DOMAIN atLock
            THEN /\ ret[p].err.nil
                 /\ DOMAIN pools = DOMAIN atLock \ {CurKey(p)}
                 /\ \A k \in DOMAIN pools : pools[k] = atLock[k]
                 /\ closes[atLock[CurKey(p)]] = 1
            ELSE /\ IsPoolNotFound(ret[p].err)
                 /\ pools = atLock

\* C29 witness: a handle that was never minted releases the second pool
\* built for a tenant, after an earlier release destroyed the first.
C29_Witness ==
    \E p \in Callers :
        /\ Returning(p, "ReleaseConnection")
        /\ cur[p].facade
        /\ cur[p].connId = <<"x", "-", "a">>
        /\ ret[p].err.nil
        /\ \E i \in Constructed :
               /\ i # atLock[CurKey(p)]
               /\ owner[i] = CurPair(p)
               /\ closes[i] = 1

\* the pool instances whose reference GetConnection has returned to a caller
Handed == {i \in Constructed : \A p \in Callers : ret[p].pool # i}

\* C30: ReleaseConnection neither waits for nor tracks the references
\* GetConnection handed out: a release that finds its key goes on to close
\* the pool, whoever was given a reference to it; every pool in the
\* registry is open, but for the one the lock holder has closed and is
\* about to delete.
C30_ReleaseIgnoresReferences ==
    [][/\ \A k \in DOMAIN pools :
              \/ closes[pools[k]] = 0
              \/ \E p \in Callers :
                     /\ mutex = p
                     /\ pc[p] = "delete"
                     /\ CurKey(p) = k
       /\ \A p \in Callers :
              (/\ cur[p].op = "ReleaseConnection"
               /\ pc[p] = "lookup"
               /\ pc'[p] # "lookup"
               /\ CurKey(p) \in DOMAIN pools) =>
                  /\ pc'[p] = "close"
                  /\ ret'[p].err.nil]_vars

\* C30 witness: a pool whose reference was returned to a caller has been
\* closed by a release of its own (tenant, dsn), while another pool is
\* registered and open.
C30_Witness ==
    \E i \in Handed :
        /\ closes[i] = 1
        /\ owner[i] \notin DOMAIN held
        /\ \A k \in DOMAIN pools : pools[k] # i
        /\ \E k \in DOMAIN pools : closes[pools[k]] = 0
        /\ mutex = 0

\* --------------------------------------------------------------- returns
\* the lock is held by nobody, or by a goroutine that is inside a registry
\* operation and has not yet returned from it
LockHeldInsideOperation ==
    \A p \in Callers : (mutex = p) => (pc[p] \in CriticalPcs)

\* C31: every registry operation releases the lock when it returns, on
\* whatever path: the lock is never held by a goroutine that is outside an
\* operation, and every started GetConnection, ReleaseConnection and GetStats
\* eventually returns, provided the lock is scheduled fairly and the library
\* calls terminate.
C31_EveryOperationReturns ==
    /\ []LockHeldInsideOperation
    /\ \A p \in Callers : (pc[p] # "idle") ~> (pc[p] = "idle")

\* C31 witness: a ReleaseConnection that found no pool is at its return
\* while another goroutine, which has started a GetConnection, waits for the
\* lock.
C31_Witness ==
    \E p, q \in Callers :
        /\ Returning(p, "ReleaseConnection")
        /\ IsPoolNotFound(ret[p].err)
        /\ pc[q] = "lock"
        /\ cur[q].op = "GetConnection"

\* ------------------------------------------------------ after a release
\* C32: a successful GetConnection returns a pool that is open when it
\* returns and is the one registered under its key; when the key is not in
\* the map the call goes on to ParseConfig, and the pool NewWithConfig gives
\* it is a new one, not an instance constructed earlier: after a release,
\* the next successful call for the key returns a pool distinct from the
\* released one.
C32_ReturnsOpenFreshPool ==
    [][\A p \in Callers :
           /\ (Returning(p, "GetConnection") /\ ret[p].err.nil) =>
                  /\ closes[ret[p].pool] = 0
                  /\ CurKey(p) \in DOMAIN pools
                  /\ pools[CurKey(p)] = ret[p].pool
           /\ (/\ cur[p].op = "GetConnection"
               /\ pc[p] = "lookup"
               /\ pc'[p] # "lookup"
               /\ CurKey(p) \notin DOMAIN pools) => pc'[p] = "parse"
           /\ (pc[p] = "construct" /\ pc'[p] = "insert") =>
                  /\ ret'[p].pool \notin Constructed
                  /\ closes[ret'[p].pool] = 0]_vars

\* C32 witness: a GetConnection returns a pool for a tenant and dsn whose
\* earlier pool was released; the released one is closed, the returned one is
\* another instance.
C32_Witness ==
    \E p \in Callers :
        /\ Returning(p, "GetConnection")
        /\ ret[p].err.nil
        /\ CurKey(p) \notin DOMAIN atLock
        /\ \E i \in Constructed :
               /\ owner[i] = CurPair(p)
               /\ closes[i] = 1
               /\ i # ret[p].pool

\* ------------------------------------------------------------ no leaks
\* no goroutine is inside, or waiting to enter, a registry operation
Quiescent == \A p \in Callers : pc[p] = "idle"

\* the instances registered in cpm.pools
Registered == {pools[k] : k \in DOMAIN pools}

\* C33: whenever no operation is in progress, every pool that
\* pgxpool.NewWithConfig has returned is either registered under exactly one
\* key and open, or not registered and closed exactly once; so the number of
\* keys in the map is the number of pools constructed minus the number of
\* pools closed by a release.
C33_NoLeakNoDoubleClose ==
    Quiescent =>
        /\ \A i \in Constructed :
               \/ i \in Registered /\ closes[i] = 0
               \/ i \notin Registered /\ closes[i] = 1
        /\ \A k1, k2 \in DOMAIN pools : (pools[k1] = pools[k2]) => (k1 = k2)
        /\ Registered \subseteq Constructed
        /\ Cardinality(DOMAIN pools) =
               Cardinality(Constructed) - Cardinality({i \in Constructed : closes[i] >= 1})

\* C33 witness: no operation is in progress, one pool is registered and open
\* and another one has been released.
C33_Witness ==
    /\ Quiescent
    /\ \E i, j \in Constructed :
           /\ i \in Registered
           /\ closes[i] = 0
           /\ j \notin Registered
           /\ closes[j] = 1

\* ---------------------------------------------------------------- frame
\* the entry of key k is the same before and after the step: registered or
\* not, the same pool, closed as many times
SameEntry(k) ==
    /\ (k \in DOMAIN pools) <=> (k \in DOMAIN pools')
    /\ (k \in DOMAIN pools) =>
           /\ pools'[k] = pools[k]
           /\ closes'[pools[k]] = closes[pools[k]]

\* the keys the calls can name
AllKeys == {Key(K[1], K[2]) : K \in AllPairs}

Received ==
    (IF grpcErrChan # <<>> /\ grpcErrChan' = Tail(grpcErrChan) THEN 1 ELSE 0)
    + (IF httpErrChan # <<>> /\ httpErrChan' = Tail(httpErrChan) THEN 1 ELSE 0)
    + (IF signalChan # <<>> /\ signalChan' = Tail(signalChan) THEN 1 ELSE 0)

\* C35: Application.Run leaves its select statement by receiving one value
\* from one of its three channels, and returns once.  It returns nil exactly
\* when the value was a signal, and then app.grpcServer has been stopped
\* gracefully before the return; when the value was an error of the gRPC or
\* of the HTTP server it returns that error wrapped, never nil, and the error
\* of the HTTP server is never http.ErrServerClosed.
C35_RunReturnsOnFirstEvent ==
    [][/\ (runPc = "returned") =>
              /\ selected \in {"grpc", "http", "signal"}
              /\ selected \in sent
              /\ runRet.nil <=> (selected = "signal")
              /\ runRet.nil => (grpcServer = "stopped")
              /\ (selected = "grpc") => (runRet = GRPCServerError(AcceptErr))
              /\ (selected = "http") => (runRet = HTTPServerError(CertErr))
              /\ runPc' = "returned"
              /\ runRet' = runRet
              /\ selected' = selected
       /\ (runPc = "select" /\ runPc' # "select") => (Received = 1)
       /\ (runPc # "select") =>
              (Len(grpcErrChan') >= Len(grpcErrChan)
                   /\ Len(httpErrChan') >= Len(httpErrChan)
                   /\ Len(signalChan') >= Len(signalChan))
       /\ (runPc' = "returned" /\ runPc # "returned") =>
              \/ runPc = "select" /\ selected' \in {"grpc", "http"} /\ ~runRet'.nil
              \/ runPc = "return" /\ selected = "signal" /\ grpcServer = "stopped"
                     /\ runRet'.nil]_vars

\* C35 witness: Run has returned nil after a signal, with the gRPC server
\* stopped, while an error of the HTTP server that arrived later is still in
\* its channel.
C35_Witness ==
    /\ runPc = "returned"
    /\ runRet.nil
    /\ selected = "signal"
    /\ grpcServer = "stopped"
    /\ httpErrChan # <<>>

====
